---- MODULE Spec2Model ----
(***************************************************************************)
(* Liveliness-token codec of rmw_zenoh_cpp (liveliness_utils.cpp).         *)
(*                                                                         *)
(* A std::string is a finite sequence of one-character strings, so that    *)
(* splitting, mangling, number formatting and number parsing are computed  *)
(* character by character, as the code computes them.                      *)
(***************************************************************************)
EXTENDS Integers, Sequences, FiniteSets, TLC

VARIABLES
  origin,      \* which operation produced the current state
  facts,       \* arguments of the last Entity::make(id, type, node_info, topic_info)
  local,       \* what that call returned
  prev,        \* the Entity the facts factory returned before this one
  token,       \* argument of the last Entity::make(keyexpr)
  remote,      \* how that call ended
  qos_in,      \* argument of the last qos_to_keyexpr
  qos_text,    \* argument of the last keyexpr_to_qos
  qos_out      \* what keyexpr_to_qos returned

vars == <<origin, facts, local, prev, token, remote, qos_in, qos_text, qos_out>>

-----------------------------------------------------------------------------
(* Bounds of the model.                                                    *)

\* Width in bits of size_t / unsigned long in the model (64 in the build).
SizeBits == 16
\* Largest history depth drawn for a QoS profile, besides SIZE_MAX itself.
MaxDepth == 11
\* Largest domain id drawn for a NodeInfo.
MaxDomainId == 10
\* Largest integer drawn for a QoS policy enum field (an enum holds an int).
MaxEnumValue == 4
\* Largest number of '/'-separated segments of a token arriving from the wire.
MaxSegments == 10

SIZE_MAX == 2 ^ SizeBits - 1

-----------------------------------------------------------------------------
(* std::optional                                                           *)

nullopt == [has_value |-> FALSE]
Some(v) == [has_value |-> TRUE, value |-> v]

-----------------------------------------------------------------------------
(* Characters and number formatting.                                       *)

DIGITS == <<"0", "1", "2", "3", "4", "5", "6", "7", "8", "9">>
HEXDIGITS == DIGITS \o <<"a", "b", "c", "d", "e", "f">>

DigitValue(c) == (CHOOSE d \in 1..10 : DIGITS[d] = c) - 1

RECURSIVE to_string_nat(_)
to_string_nat(n) ==
  IF n < 10 THEN <<DIGITS[n + 1]>>
  ELSE Append(to_string_nat(n \div 10), DIGITS[(n % 10) + 1])

\* std::to_string of an integer: decimal, a leading '-' when negative.
to_string(n) == IF n < 0 THEN <<"-">> \o to_string_nat(-n) ELSE to_string_nat(n)

\* operator<< of an int under std::hex: no padding, lower case.
RECURSIVE hex(_)
hex(n) ==
  IF n < 16 THEN <<HEXDIGITS[n + 1]>>
  ELSE Append(hex(n \div 16), HEXDIGITS[(n % 16) + 1])

RECURSIVE zid_to_str_from(_, _)
zid_to_str_from(id, i) ==
  IF i > Len(id) THEN << >> ELSE hex(id[i]) \o zid_to_str_from(id, i + 1)

zid_to_str(id) == zid_to_str_from(id, 1)

-----------------------------------------------------------------------------
(* strtoul(nptr, &endptr, 10) and std::stoul.                              *)

\* First index at or after i whose character is not in chars, Len(s)+1 if none.
RECURSIVE SkipWhile(_, _, _)
SkipWhile(s, i, chars) ==
  IF i <= Len(s) /\ s[i] \in chars THEN SkipWhile(s, i + 1, chars) ELSE i

DigitChars == {DIGITS[d] : d \in 1..10}

\* Value of the digits s[i..j-1], saturating at SIZE_MAX + 1 once it overflows.
RECURSIVE DigitsValue(_, _, _, _)
DigitsValue(s, i, j, acc) ==
  IF i >= j THEN acc
  ELSE LET next == acc * 10 + DigitValue(s[i])
       IN  DigitsValue(s, i + 1, j, IF next > SIZE_MAX THEN SIZE_MAX + 1 ELSE next)

\* num: the value returned; endptr: index of the first character not consumed
\* (1 is the start of the string, Len(s)+1 its terminating NUL);
\* erange: errno was set to ERANGE.
strtoul(s) ==
  LET i0  == SkipWhile(s, 1, {" "})
      neg == i0 <= Len(s) /\ s[i0] = "-"
      i1  == IF i0 <= Len(s) /\ s[i0] \in {"+", "-"} THEN i0 + 1 ELSE i0
      i2  == SkipWhile(s, i1, DigitChars)
      mag == DigitsValue(s, i1, i2, 0)
  IN  IF i2 = i1 THEN [num |-> 0, endptr |-> 1, erange |-> FALSE]
      ELSE IF mag > SIZE_MAX THEN [num |-> SIZE_MAX, endptr |-> i2, erange |-> TRUE]
      ELSE [num |-> IF neg THEN (SIZE_MAX + 1 - mag) % (SIZE_MAX + 1) ELSE mag,
            endptr |-> i2, erange |-> FALSE]

\* std::stoul(str): throws std::invalid_argument when nothing converts and
\* std::out_of_range on ERANGE; characters after the number are ignored.
stoul(s) ==
  LET r == strtoul(s)
  IN  IF r.endptr = 1 THEN [throws |-> TRUE, what |-> "invalid_argument"]
      ELSE IF r.erange THEN [throws |-> TRUE, what |-> "out_of_range"]
      ELSE [throws |-> FALSE, value |-> r.num]

-----------------------------------------------------------------------------
(* Constants of the file and the closed lookup tables.                     *)

ADMIN_SPACE == <<"@", "r", "o", "s", "2", "_", "l", "v">>
NODE_STR == <<"N", "N">>
PUB_STR == <<"M", "P">>
SUB_STR == <<"M", "S">>
SRV_STR == <<"S", "S">>
CLI_STR == <<"S", "C">>
SLASH_REPLACEMENT == "%"
QOS_DELIMITER == ":"
QOS_HISTORY_DELIMITER == ","

\* The five enumerators of EntityType.
EntityTypes == {"Node", "Publisher", "Subscription", "Service", "Client"}

entity_to_str ==
  [t \in EntityTypes |->
     CASE t = "Node" -> NODE_STR
       [] t = "Publisher" -> PUB_STR
       [] t = "Subscription" -> SUB_STR
       [] t = "Service" -> SRV_STR
       [] t = "Client" -> CLI_STR]

str_to_entity ==
  [s \in {NODE_STR, PUB_STR, SUB_STR, SRV_STR, CLI_STR} |->
     CASE s = NODE_STR -> "Node"
       [] s = PUB_STR -> "Publisher"
       [] s = SUB_STR -> "Subscription"
       [] s = SRV_STR -> "Service"
       [] s = CLI_STR -> "Client"]

\* The enumerators of rmw/types.h the tables are built from. The comments at
\* lines 197-199 and 306-309 give reliable = 1, best_effort = 2,
\* transient_local = 1, volatile = 2, keep_last = 1, keep_all = 2; each enum
\* starts with SYSTEM_DEFAULT = 0 and the tables end with UNKNOWN = 3.
RMW_QOS_POLICY_HISTORY_SYSTEM_DEFAULT == 0
RMW_QOS_POLICY_HISTORY_KEEP_LAST == 1
RMW_QOS_POLICY_HISTORY_KEEP_ALL == 2
RMW_QOS_POLICY_HISTORY_UNKNOWN == 3

RMW_QOS_POLICY_RELIABILITY_SYSTEM_DEFAULT == 0
RMW_QOS_POLICY_RELIABILITY_RELIABLE == 1
RMW_QOS_POLICY_RELIABILITY_BEST_EFFORT == 2
RMW_QOS_POLICY_RELIABILITY_UNKNOWN == 3

RMW_QOS_POLICY_DURABILITY_SYSTEM_DEFAULT == 0
RMW_QOS_POLICY_DURABILITY_TRANSIENT_LOCAL == 1
RMW_QOS_POLICY_DURABILITY_VOLATILE == 2
RMW_QOS_POLICY_DURABILITY_UNKNOWN == 3

\* A table built as {std::to_string(e), e} over the enumerators es.
EnumTable(es) == [s \in {to_string(e) : e \in es} |-> CHOOSE e \in es : to_string(e) = s]

str_to_qos_history ==
  EnumTable({RMW_QOS_POLICY_HISTORY_SYSTEM_DEFAULT, RMW_QOS_POLICY_HISTORY_KEEP_LAST,
             RMW_QOS_POLICY_HISTORY_KEEP_ALL, RMW_QOS_POLICY_HISTORY_UNKNOWN})

str_to_qos_reliability ==
  EnumTable({RMW_QOS_POLICY_RELIABILITY_SYSTEM_DEFAULT, RMW_QOS_POLICY_RELIABILITY_RELIABLE,
             RMW_QOS_POLICY_RELIABILITY_BEST_EFFORT, RMW_QOS_POLICY_RELIABILITY_UNKNOWN})

str_to_qos_durability ==
  EnumTable({RMW_QOS_POLICY_DURABILITY_SYSTEM_DEFAULT,
             RMW_QOS_POLICY_DURABILITY_TRANSIENT_LOCAL,
             RMW_QOS_POLICY_DURABILITY_VOLATILE, RMW_QOS_POLICY_DURABILITY_UNKNOWN})

-----------------------------------------------------------------------------
(* split_keyexpr                                                           *)

\* std::string::find(delim, start): the first index at or after start that
\* holds delim, 0 for npos.
RECURSIVE find(_, _, _)
find(s, delim, start) ==
  IF start > Len(s) THEN 0
  ELSE IF s[start] = delim THEN start
  ELSE find(s, delim, start + 1)

RECURSIVE split_loop(_, _, _, _)
split_loop(keyexpr, delim, start, result) ==
  LET end == find(keyexpr, delim, start)
  IN  IF end # 0
      THEN split_loop(keyexpr, delim, end + 1,
                      Append(result, SubSeq(keyexpr, start, end - 1)))
      ELSE Append(result, SubSeq(keyexpr, start, Len(keyexpr)))

split_keyexpr(keyexpr, delim) == split_loop(keyexpr, delim, 1, << >>)

-----------------------------------------------------------------------------
(* mangle_name / demangle_name                                             *)

\* Mutant: the name is written as it is.
mangle_name_verbatim(input) == input

mangle_name(input) ==
  [i \in 1..Len(input) |-> IF input[i] = "/" THEN SLASH_REPLACEMENT ELSE input[i]]

demangle_name(input) ==
  [i \in 1..Len(input) |-> IF input[i] = SLASH_REPLACEMENT THEN "/" ELSE input[i]]

-----------------------------------------------------------------------------
(* QoS codec. The vectors of the code are indexed from 0, sequences from 1: *)
(* parts[2] of the code is parts[3] here.                                  *)

\* Mutant: durability written before reliability.
qos_to_keyexpr_swapped(qos) ==
  to_string(qos.durability) \o <<QOS_DELIMITER>> \o
  to_string(qos.reliability) \o <<QOS_DELIMITER>> \o
  to_string(qos.history) \o <<QOS_HISTORY_DELIMITER>> \o
  to_string(qos.depth)

qos_to_keyexpr(qos) ==
  to_string(qos.reliability) \o <<QOS_DELIMITER>> \o
  to_string(qos.durability) \o <<QOS_DELIMITER>> \o
  to_string(qos.history) \o <<QOS_HISTORY_DELIMITER>> \o
  to_string(qos.depth)

\* `indeterminate` is the value the field keyexpr_to_qos never writes
\* (avoid_ros_namespace_conventions of the uninitialized local) happens to hold.
keyexpr_to_qos(keyexpr, indeterminate) ==
  LET parts == split_keyexpr(keyexpr, QOS_DELIMITER)
  IN  IF Len(parts) < 3 THEN nullopt
      ELSE
        LET history_parts == split_keyexpr(parts[3], QOS_HISTORY_DELIMITER)
        IN  IF Len(history_parts) < 2 THEN nullopt
            ELSE IF \/ history_parts[1] \notin DOMAIN str_to_qos_history
                    \/ parts[1] \notin DOMAIN str_to_qos_reliability
                    \/ parts[2] \notin DOMAIN str_to_qos_durability
            THEN nullopt   \* .at() throws std::out_of_range, caught at line 232
            ELSE
              LET r == strtoul(history_parts[2])
              IN  IF r.endptr = 1 THEN nullopt
                  ELSE IF r.endptr # Len(history_parts[2]) + 1 THEN nullopt
                  ELSE IF r.erange THEN nullopt
                  ELSE Some([reliability |-> str_to_qos_reliability[parts[1]],
                             durability |-> str_to_qos_durability[parts[2]],
                             history |-> str_to_qos_history[history_parts[1]],
                             depth |-> r.num,
                             liveliness |-> "RMW_QOS_POLICY_LIVELINESS_AUTOMATIC",
                             liveliness_lease_duration |->
                               "RMW_QOS_LIVELINESS_LEASE_DURATION_DEFAULT",
                             deadline |-> "RMW_QOS_DEADLINE_DEFAULT",
                             lifespan |-> "RMW_QOS_LIFESPAN_DEFAULT",
                             avoid_ros_namespace_conventions |-> indeterminate])

-----------------------------------------------------------------------------
(* Entity: the constructor computes keyexpr_ from the other members.       *)

NodeInfo(domain_id, ns, name, enclave) ==
  [domain_id_ |-> domain_id, ns_ |-> ns, name_ |-> name, enclave_ |-> enclave]

TopicInfo(name, type, qos) == [name_ |-> name, type_ |-> type, qos_ |-> qos]

\* Mutant: the root namespace gets no "_" segment.
Entity_no_sentinel(id, type, node_info, topic_info) ==
  LET ns == node_info.ns_
      head == ADMIN_SPACE \o <<"/">> \o to_string(node_info.domain_id_) \o <<"/">> \o id
                \o <<"/">> \o entity_to_str[type] \o ns
      node == head \o <<"/">> \o mangle_name(node_info.name_)
      full == IF topic_info.has_value
              THEN node \o <<"/">> \o mangle_name(topic_info.value.name_) \o <<"/">>
                     \o topic_info.value.type_ \o <<"/">>
                     \o qos_to_keyexpr(topic_info.value.qos_)
              ELSE node
  IN  [id_ |-> id, type_ |-> type, node_info_ |-> node_info,
       topic_info_ |-> topic_info, keyexpr_ |-> full]

Entity(id, type, node_info, topic_info) ==
  LET ns == node_info.ns_
      head == ADMIN_SPACE \o <<"/">> \o to_string(node_info.domain_id_) \o <<"/">> \o id
                \o <<"/">> \o entity_to_str[type] \o ns
      sep == IF ns = <<"/">> THEN <<"_", "/">> ELSE <<"/">>
      node == head \o sep \o mangle_name(node_info.name_)
      full == IF topic_info.has_value
              THEN node \o <<"/">> \o mangle_name(topic_info.value.name_) \o <<"/">>
                     \o topic_info.value.type_ \o <<"/">>
                     \o qos_to_keyexpr(topic_info.value.qos_)
              ELSE node
  IN  [id_ |-> id, type_ |-> type, node_info_ |-> node_info,
       topic_info_ |-> topic_info, keyexpr_ |-> full]

\* Mutant: the check that a non-node entity has topic_info is left out.
make_from_facts_no_topic_check(id, type, node_info, topic_info) ==
  IF type \notin DOMAIN entity_to_str THEN nullopt
  ELSE IF node_info.ns_ = << >> \/ node_info.name_ = << >> THEN nullopt
  ELSE Some(Entity(zid_to_str(id), type, node_info, topic_info))

\* Entity::make(z_id_t, EntityType, NodeInfo, std::optional<TopicInfo>)
make_from_facts(id, type, node_info, topic_info) ==
  IF type \notin DOMAIN entity_to_str THEN nullopt
  ELSE IF node_info.ns_ = << >> \/ node_info.name_ = << >> THEN nullopt
  ELSE IF type # "Node" /\ ~topic_info.has_value THEN nullopt
  ELSE Some(Entity(zid_to_str(id), type, node_info, topic_info))

\* How a call of Entity::make(const std::string &) ends: it returns an
\* optional, or an exception leaves it.
Returned(opt) == [thrown |-> FALSE, result |-> opt]
Thrown(what) == [thrown |-> TRUE, what |-> what]

\* Mutant: the namespace is segment 4 as it stands, without the leading '/'.
make_from_keyexpr_ns_verbatim(keyexpr, indeterminate) ==
  LET parts == split_keyexpr(keyexpr, "/")
  IN  IF Len(parts) < 6 THEN Returned(nullopt)
      ELSE IF \E i \in 1..Len(parts) : parts[i] = << >> THEN Returned(nullopt)
      ELSE IF parts[1] # ADMIN_SPACE THEN Returned(nullopt)
      ELSE IF parts[4] \notin DOMAIN str_to_entity THEN Returned(nullopt)
      ELSE
        LET entity_type == str_to_entity[parts[4]]
            domain_id == stoul(parts[2])
            id == parts[3]
            ns == IF parts[5] = <<"_">> THEN <<"/">> ELSE parts[5]
            node_name == demangle_name(parts[6])
            node_info == NodeInfo(domain_id.value, ns, node_name, << >>)
        IN  IF domain_id.throws THEN Thrown(domain_id.what)
            ELSE IF entity_type = "Node"
            THEN Returned(Some(Entity(id, entity_type, node_info, nullopt)))
            ELSE IF Len(parts) < 9 THEN Returned(nullopt)
            ELSE
              LET qos == keyexpr_to_qos(parts[9], indeterminate)
              IN  IF ~qos.has_value THEN Returned(nullopt)
                  ELSE Returned(Some(Entity(id, entity_type, node_info,
                         Some(TopicInfo(demangle_name(parts[7]), parts[8], qos.value)))))

\* Entity::make(const std::string &). parts[k] of the code is parts[k + 1] here.
make_from_keyexpr(keyexpr, indeterminate) ==
  LET parts == split_keyexpr(keyexpr, "/")
  IN  IF Len(parts) < 6 THEN Returned(nullopt)
      ELSE IF \E i \in 1..Len(parts) : parts[i] = << >> THEN Returned(nullopt)
      ELSE IF parts[1] # ADMIN_SPACE THEN Returned(nullopt)
      ELSE IF parts[4] \notin DOMAIN str_to_entity THEN Returned(nullopt)
      ELSE
        LET entity_type == str_to_entity[parts[4]]
            domain_id == stoul(parts[2])
            id == parts[3]
            ns == IF parts[5] = <<"_">> THEN <<"/">> ELSE <<"/">> \o parts[5]
            node_name == demangle_name(parts[6])
            node_info == NodeInfo(domain_id.value, ns, node_name, << >>)
        IN  IF domain_id.throws THEN Thrown(domain_id.what)
            ELSE IF entity_type = "Node"
            THEN Returned(Some(Entity(id, entity_type, node_info, nullopt)))
            ELSE IF Len(parts) < 9 THEN Returned(nullopt)
            ELSE
              LET qos == keyexpr_to_qos(parts[9], indeterminate)
              IN  IF ~qos.has_value THEN Returned(nullopt)
                  ELSE Returned(Some(Entity(id, entity_type, node_info,
                         Some(TopicInfo(demangle_name(parts[7]), parts[8], qos.value)))))

-----------------------------------------------------------------------------
(* Inputs.                                                                 *)

\* z_id_t: the 16 bytes of a zenoh session id.
ZidSamples ==
  { <<0, 0, 0, 0, 0, 0, 0, 0, 0, 0, 0, 0, 0, 0, 0, 0>>,
    <<1, 16, 171, 255, 0, 9, 0, 0, 0, 0, 0, 0, 0, 0, 0, 10>> }

\* EntityType values: the five enumerators and an integer cast to the enum.
TypeSamples == EntityTypes \cup {"Invalid"}

NamespaceSamples ==
  { << >>, <<"/">>, <<"/", "a">>, <<"/", "a", "/", "b">>, <<"/", "_">>, <<"a">> }

NameSamples == { << >>, <<"n">>, <<"b", "/", "c">>, <<"b", "%", "c">> }

EnclaveSamples == { << >>, <<"/", "e">> }

TopicNameSamples == { << >>, <<"/", "t">>, <<"%", "t">> }

TopicTypeSamples == { << >>, <<"T">>, <<"a", "/", "b">> }

\* The members of rmw_qos_profile_t the key expression does not carry.
QosRest ==
  { [liveliness |-> "RMW_QOS_POLICY_LIVELINESS_AUTOMATIC",
     liveliness_lease_duration |-> "RMW_QOS_LIVELINESS_LEASE_DURATION_DEFAULT",
     deadline |-> "RMW_QOS_DEADLINE_DEFAULT",
     lifespan |-> "RMW_QOS_LIFESPAN_DEFAULT",
     avoid_ros_namespace_conventions |-> FALSE],
    [liveliness |-> "RMW_QOS_POLICY_LIVELINESS_MANUAL_BY_TOPIC",
     liveliness_lease_duration |-> "1s",
     deadline |-> "2s",
     lifespan |-> "3s",
     avoid_ros_namespace_conventions |-> TRUE] }

QosProfile(reliability, durability, history, depth, rest) ==
  [reliability |-> reliability, durability |-> durability, history |-> history,
   depth |-> depth,
   liveliness |-> rest.liveliness,
   liveliness_lease_duration |-> rest.liveliness_lease_duration,
   deadline |-> rest.deadline,
   lifespan |-> rest.lifespan,
   avoid_ros_namespace_conventions |-> rest.avoid_ros_namespace_conventions]

\* depth is a size_t.
DepthSamples == (0..MaxDepth) \cup {SIZE_MAX}

QosProfiles ==
  { QosProfile(r, d, h, n, rest) :
      r \in 0..MaxEnumValue, d \in 0..MaxEnumValue, h \in 0..MaxEnumValue,
      n \in DepthSamples, rest \in QosRest }

\* The QoS profiles drawn for a TopicInfo.
TopicQosSamples ==
  { q \in QosProfiles :
      \/ <<q.reliability, q.durability, q.history, q.depth>> =
           <<RMW_QOS_POLICY_RELIABILITY_BEST_EFFORT,
             RMW_QOS_POLICY_DURABILITY_TRANSIENT_LOCAL,
             RMW_QOS_POLICY_HISTORY_KEEP_ALL, MaxDepth - 1>>
         /\ q.avoid_ros_namespace_conventions
      \/ <<q.reliability, q.durability, q.history, q.depth>> =
           <<RMW_QOS_POLICY_RELIABILITY_SYSTEM_DEFAULT,
             RMW_QOS_POLICY_DURABILITY_UNKNOWN,
             RMW_QOS_POLICY_HISTORY_KEEP_LAST, SIZE_MAX>>
         /\ ~q.avoid_ros_namespace_conventions
      \/ <<q.reliability, q.durability, q.history, q.depth>> =
           <<MaxEnumValue, RMW_QOS_POLICY_DURABILITY_VOLATILE,
             RMW_QOS_POLICY_HISTORY_SYSTEM_DEFAULT, 0>>
         /\ ~q.avoid_ros_namespace_conventions }

TopicInfoSamples ==
  {nullopt} \cup
  { Some(TopicInfo(n, t, q)) :
      n \in TopicNameSamples, t \in TopicTypeSamples, q \in TopicQosSamples }

NodeInfoSamples ==
  { NodeInfo(d, ns, n, e) :
      d \in {0, MaxDomainId}, ns \in NamespaceSamples, n \in NameSamples,
      e \in EnclaveSamples }

\* Two session ids that zid_to_str renders alike: "1" "10" "0"... and "11" "0" "0"...
PairZidSamples ==
  { <<1, 16, 0, 0, 0, 0, 0, 0, 0, 0, 0, 0, 0, 0, 0, 0>>,
    <<17, 0, 0, 0, 0, 0, 0, 0, 0, 0, 0, 0, 0, 0, 0, 0>> }

\* The facts drawn when two entities are announced one after the other.
PairNodeInfoSamples ==
  { NodeInfo(0, ns, n, << >>) :
      ns \in { <<"/">>, <<"/", "_">>, <<"/", "a">>, <<"/", "a", "/", "b">> },
      n \in { <<"b">>, <<"c">>, <<"b", "%", "c">>, <<"b", "/", "c">> } }

PairTopicInfoSamples ==
  {nullopt} \cup
  { Some(TopicInfo(n, t, q)) :
      n \in { <<"c">>, <<"d">> },
      t \in { <<"T">>, <<"d", "/", "T">> },
      q \in { x \in TopicQosSamples : x.reliability = RMW_QOS_POLICY_RELIABILITY_BEST_EFFORT } }

\* A decimal text one digit too long for a size_t.
OverflowText == to_string(SIZE_MAX) \o <<"0">>

\* Texts met where keyexpr_to_qos expects the history depth.
DepthTexts ==
  { << >>, <<"1", "0">>, <<"0", "5">>, <<"5", "x">>, <<"x">>, <<"-", "5">>,
    <<"+", "5">>, <<" ", "5">>, to_string(SIZE_MAX), OverflowText }

ReliabilityTexts == { << >>, <<"1">>, <<"3">>, <<"0", "1">>, <<"-", "1">>, <<"9", "9">> }
DurabilityTexts == { <<"2">>, <<"4">> }
HistoryTexts == { <<"1">>, <<"7">> }

\* QoS substrings: well-formed ones, ones with parts missing, ones with parts
\* added.
QosTexts ==
  LET rd == { r \o <<":">> \o d : r \in ReliabilityTexts, d \in DurabilityTexts }
      rdh == { x \o <<":">> \o h : x \in rd, h \in HistoryTexts }
      full == { x \o <<",">> \o n : x \in rdh, n \in DepthTexts }
  IN  ReliabilityTexts \cup rd \cup rdh \cup full
        \cup { x \o <<",", "9">> : x \in full }
        \cup { x \o <<":", "z">> : x \in full }

\* The token of a publisher of /chatter in node /talker with best-effort,
\* transient-local, keep-all QoS of depth 10: the example of the constructor's
\* comment, with the topic name segment the constructor writes.
ExampleToken ==
  ADMIN_SPACE \o <<"/", "0", "/">>
    \o <<"q", "1", "w", "2", "e", "3", "r", "4", "t", "5", "y", "6">>
    \o <<"/", "M", "P", "/", "_", "/", "t", "a", "l", "k", "e", "r", "/">>
    \o <<"%", "c", "h", "a", "t", "t", "e", "r", "/">>
    \o <<"s", "t", "d", "_", "m", "s", "g", "s", ":", ":", "m", "s", "g", ":", ":",
         "S", "t", "r", "i", "n", "g", "/">>
    \o <<"2", ":", "1", ":", "2", ",", "1", "0">>

\* The token of a node "mynode" in the root namespace: 6 segments.
NodeExampleToken ==
  ADMIN_SPACE \o <<"/", "0", "/", "a", "b", "c", "/", "N", "N", "/", "_", "/">>
    \o <<"m", "y", "n", "o", "d", "e">>

\* What a peer may put in segment i (counted from 1) of a token.
SegmentSamples(i) ==
  CASE i = 1 -> { ADMIN_SPACE, <<"@", "r", "o", "s", "2">>, << >> }
    [] i = 2 -> { <<"0">>, <<"0", "0", "7">>, <<"5", "x">>, <<"a", "b", "c">>,
                  <<"-", "1">>, OverflowText }
    [] i = 3 -> { <<"a", "b", "c">> }
    [] i = 4 -> { NODE_STR, PUB_STR, CLI_STR, <<"X", "X">> }
    [] i = 5 -> { <<"_">>, <<"a">> }
    [] i = 6 -> { <<"n">>, <<"b", "%", "c">>, << >> }
    [] i = 7 -> { <<"%", "t">> }
    [] i = 8 -> { <<"T">> }
    [] i = 9 -> { <<"1", ":", "2", ":", "1", ",", "1", "0">>,
                  <<"9", "9", ":", "1", ":", "1", ",", "5">>,
                  <<"1", ":", "1", ":", "1", ",", "-", "5">>,
                  <<"1", ":", "2", ":", "1", ",", "0", "5">>,
                  <<"1", ":", "2", ":", "1", ",", "1", "0", ",", "9">>,
                  <<"1", ":", "2">> }
    [] OTHER -> { <<"x">> }

\* The tokens of n segments.
RECURSIVE TokensOf(_)
TokensOf(n) ==
  IF n = 1 THEN SegmentSamples(1)
  ELSE { t \o <<"/">> \o seg : t \in TokensOf(n - 1), seg \in SegmentSamples(n) }

\* Key expressions the transport may deliver: anything a peer published.
WireTokens ==
  {ExampleToken, NodeExampleToken} \cup UNION { TokensOf(n) : n \in 1..MaxSegments }

-----------------------------------------------------------------------------
(* The state machine: each operation runs from the idle state, and Drop    *)
(* returns to it.                                                          *)

Init ==
  /\ origin = "none"
  /\ facts = nullopt
  /\ local = nullopt
  /\ prev = nullopt
  /\ token = nullopt
  /\ remote = nullopt
  /\ qos_in = nullopt
  /\ qos_text = nullopt
  /\ qos_out = nullopt

\* A component holding entity facts, drawn from the given sets, calls the
\* facts factory.
AnnounceFrom(ids, types, node_infos, topic_infos) ==
  /\ origin = "none"
  /\ \E id \in ids, type \in types, node_info \in node_infos, topic_info \in topic_infos :
       /\ facts' = Some([id |-> id, type |-> type, node_info |-> node_info,
                         topic_info |-> topic_info])
       /\ local' = make_from_facts(id, type, node_info, topic_info)
  /\ origin' = "facts"
  /\ UNCHANGED <<prev, token, remote, qos_in, qos_text, qos_out>>

Announce == AnnounceFrom(ZidSamples, TypeSamples, NodeInfoSamples, TopicInfoSamples)

AnnouncePair ==
  AnnounceFrom(PairZidSamples, {"Node", "Publisher"}, PairNodeInfoSamples,
               PairTopicInfoSamples)

\* The same component announces a second entity; prev keeps the first.
AnnounceAgain ==
  /\ origin = "facts"
  /\ local.has_value
  /\ ~prev.has_value
  /\ prev' = local
  /\ \E id \in PairZidSamples, type \in {"Node", "Publisher"},
        node_info \in PairNodeInfoSamples, topic_info \in PairTopicInfoSamples :
       /\ facts' = Some([id |-> id, type |-> type, node_info |-> node_info,
                         topic_info |-> topic_info])
       /\ local' = make_from_facts(id, type, node_info, topic_info)
  /\ origin' = "facts_again"
  /\ UNCHANGED <<token, remote, qos_in, qos_text, qos_out>>

\* A peer receives the liveliness token of the local entity and parses it.
Discover ==
  /\ origin = "facts"
  /\ local.has_value
  /\ ~prev.has_value
  /\ origin' = "discovered"
  /\ token' = Some(local.value.keyexpr_)
  /\ \E indeterminate \in BOOLEAN :
       remote' = Some(make_from_keyexpr(local.value.keyexpr_, indeterminate))
  /\ UNCHANGED <<facts, local, prev, qos_in, qos_text, qos_out>>

\* The transport delivers a key expression some peer published.
Deliver ==
  /\ origin = "none"
  /\ \E keyexpr \in WireTokens, indeterminate \in BOOLEAN :
       /\ token' = Some(keyexpr)
       /\ remote' = Some(make_from_keyexpr(keyexpr, indeterminate))
  /\ origin' = "wire"
  /\ UNCHANGED <<facts, local, prev, qos_in, qos_text, qos_out>>

\* qos_to_keyexpr of a profile, and keyexpr_to_qos of what it returned.
QosEncodeDecode ==
  /\ origin = "none"
  /\ \E qos \in QosProfiles, indeterminate \in BOOLEAN :
       /\ qos_in' = Some(qos)
       /\ qos_text' = Some(qos_to_keyexpr(qos))
       /\ qos_out' = keyexpr_to_qos(qos_to_keyexpr(qos), indeterminate)
  /\ origin' = "qos_encode"
  /\ UNCHANGED <<facts, local, prev, token, remote>>

\* keyexpr_to_qos of a QoS substring.
QosDecode ==
  /\ origin = "none"
  /\ \E keyexpr \in QosTexts, indeterminate \in BOOLEAN :
       /\ qos_text' = Some(keyexpr)
       /\ qos_out' = keyexpr_to_qos(keyexpr, indeterminate)
  /\ origin' = "qos_decode"
  /\ UNCHANGED <<facts, local, prev, token, remote, qos_in>>

\* The values are destroyed; the next operation starts afresh.
Drop ==
  /\ origin # "none"
  /\ origin' = "none"
  /\ facts' = nullopt
  /\ local' = nullopt
  /\ prev' = nullopt
  /\ token' = nullopt
  /\ remote' = nullopt
  /\ qos_in' = nullopt
  /\ qos_text' = nullopt
  /\ qos_out' = nullopt

Next == Announce \/ Discover \/ Deliver \/ QosEncodeDecode \/ QosDecode \/ Drop

Spec == Init /\ [][Next]_vars

\* Two announcements in a row, to compare the entities they produce.
NextPair == AnnouncePair \/ AnnounceAgain \/ Drop

SpecPair == Init /\ [][NextPair]_vars

-----------------------------------------------------------------------------
(* Vocabulary of the properties.                                           *)

Contains(s, c) == \E i \in 1..Len(s) : s[i] = c

\* The call of Entity::make(keyexpr) ended by returning an Entity.
RemoteEntity == remote.has_value /\ ~remote.value.thrown /\ remote.value.result.has_value
\* The call of Entity::make(keyexpr) ended by returning std::nullopt.
RemoteAbsent == remote.has_value /\ ~remote.value.thrown /\ ~remote.value.result.has_value

\* The QoS members a key expression carries.
EncodedQos(q) ==
  [reliability |-> q.reliability, durability |-> q.durability,
   history |-> q.history, depth |-> q.depth]

EncodedTopic(t) ==
  IF t.has_value
  THEN Some([name |-> t.value.name_, type |-> t.value.type_,
             qos |-> EncodedQos(t.value.qos_)])
  ELSE nullopt

\* The members of an Entity a key expression carries.
EncodedFields(e) ==
  [id |-> e.id_, type |-> e.type_, domain_id |-> e.node_info_.domain_id_,
   ns |-> e.node_info_.ns_, name |-> e.node_info_.name_,
   topic |-> EncodedTopic(e.topic_info_)]

\* The same, of the facts handed to the facts factory.
EncodedFacts(f) ==
  [id |-> zid_to_str(f.id), type |-> f.type, domain_id |-> f.node_info.domain_id_,
   ns |-> f.node_info.ns_, name |-> f.node_info.name_,
   topic |-> EncodedTopic(f.topic_info)]

-----------------------------------------------------------------------------
\* C1: facts round-trip. Whenever the facts factory accepts facts whose node
\* name and topic name hold no '%' and whose topic type holds no '/', parsing
\* the key expression it produced returns an Entity with the same id, type,
\* domain id, namespace, node name and topic info (name, type, reliability,
\* durability, history, depth).
C1_FactsRoundTrip ==
  ( /\ origin = "discovered"
    /\ ~Contains(facts.value.node_info.name_, "%")
    /\ facts.value.topic_info.has_value =>
         /\ ~Contains(facts.value.topic_info.value.name_, "%")
         /\ ~Contains(facts.value.topic_info.value.type_, "/") )
  => /\ RemoteEntity
     /\ EncodedFields(remote.value.result.value) = EncodedFacts(facts.value)

\* C2: key round-trip. Whenever Entity::make(keyexpr) accepts a key expression
\* of exactly 6 or exactly 9 segments, the Entity it returns stores that very
\* key expression.
C2_KeyRoundTrip ==
  ( /\ RemoteEntity
    /\ Len(split_keyexpr(token.value, "/")) \in {6, 9} )
  => remote.value.result.value.keyexpr_ = token.value

\* C3: decoding never throws. Every call of Entity::make(keyexpr) ends by
\* returning an Entity or std::nullopt; no exception leaves it.
C3_DecodeNeverThrows == remote.has_value => ~remote.value.thrown

\* The Entities constructed so far that are still alive.
ConstructedEntities ==
  (IF local.has_value THEN {local.value} ELSE {})
    \cup (IF prev.has_value THEN {prev.value} ELSE {})
    \cup (IF RemoteEntity THEN {remote.value.result.value} ELSE {})

\* The two-character tag of an entity type, as the format documents it.
Tag(type) ==
  CASE type = "Node" -> <<"N", "N">>
    [] type = "Publisher" -> <<"M", "P">>
    [] type = "Subscription" -> <<"M", "S">>
    [] type = "Service" -> <<"S", "S">>
    [] type = "Client" -> <<"S", "C">>

\* The documented key expression of an Entity.
FormatOf(e) ==
  LET ns == e.node_info_.ns_
      ns_part == IF ns = <<"/">> THEN <<"/", "_", "/">> ELSE ns \o <<"/">>
      t == e.topic_info_.value
      topic_part ==
        IF e.topic_info_.has_value
        THEN <<"/">> \o mangle_name(t.name_) \o <<"/">> \o t.type_ \o <<"/">>
               \o to_string(t.qos_.reliability) \o <<":">>
               \o to_string(t.qos_.durability) \o <<":">>
               \o to_string(t.qos_.history) \o <<",">>
               \o to_string(t.qos_.depth)
        ELSE << >>
  IN  <<"@", "r", "o", "s", "2", "_", "l", "v", "/">>
        \o to_string(e.node_info_.domain_id_) \o <<"/">> \o e.id_ \o <<"/">>
        \o Tag(e.type_) \o ns_part \o mangle_name(e.node_info_.name_) \o topic_part

RootTopicEntity(e) == e.topic_info_.has_value /\ e.node_info_.ns_ = <<"/">>

StructurallyBad(keyexpr) ==
  LET segs == split_keyexpr(keyexpr, "/")
  IN  \/ Len(segs) < 6
      \/ \E i \in 1..Len(segs) : segs[i] = << >>
      \/ segs[1] # <<"@", "r", "o", "s", "2", "_", "l", "v">>
      \/ segs[4] \notin {Tag(t) : t \in EntityTypes}
      \/ (segs[4] # Tag("Node") /\ Len(segs) < 9)

\* C5: structural rejection. Entity::make(keyexpr) returns std::nullopt for
\* every token with fewer than 6 segments, with an empty segment, with a
\* segment 0 other than "@ros2_lv", with an unknown tag in segment 3, or with
\* a tag other than NN and fewer than 9 segments.
C5_StructuralRejection ==
  (remote.has_value /\ StructurallyBad(token.value)) => RemoteAbsent

\* The closed enum tables hold the enumerators 0..3.
InTable(v) == v \in 0..3

\* C6: QoS round-trip. For every profile whose reliability, durability and
\* history are table values, decoding its encoding succeeds and returns the
\* same reliability, durability, history and depth, with liveliness, lease
\* duration, deadline and lifespan at the protocol defaults.
C6_QosRoundTrip ==
  ( /\ origin = "qos_encode"
    /\ InTable(qos_in.value.reliability)
    /\ InTable(qos_in.value.durability)
    /\ InTable(qos_in.value.history) )
  => /\ qos_out.has_value
     /\ EncodedQos(qos_out.value) = EncodedQos(qos_in.value)
     /\ qos_out.value.liveliness = "RMW_QOS_POLICY_LIVELINESS_AUTOMATIC"
     /\ qos_out.value.liveliness_lease_duration
          = "RMW_QOS_LIVELINESS_LEASE_DURATION_DEFAULT"
     /\ qos_out.value.deadline = "RMW_QOS_DEADLINE_DEFAULT"
     /\ qos_out.value.lifespan = "RMW_QOS_LIFESPAN_DEFAULT"

\* A profile of table values, the largest depth and non-default liveliness,
\* deadline and lifespan was encoded and decoded.
C6_Witness ==
  /\ origin = "qos_encode"
  /\ qos_in.value.reliability = RMW_QOS_POLICY_RELIABILITY_BEST_EFFORT
  /\ qos_in.value.durability = RMW_QOS_POLICY_DURABILITY_TRANSIENT_LOCAL
  /\ qos_in.value.history = RMW_QOS_POLICY_HISTORY_UNKNOWN
  /\ qos_in.value.depth = SIZE_MAX
  /\ qos_in.value.liveliness # "RMW_QOS_POLICY_LIVELINESS_AUTOMATIC"
  /\ qos_out.has_value
  /\ qos_out.value.depth = SIZE_MAX

\* The text of a non-negative integer that fits a size_t: digits only.
RECURSIVE DecimalValue(_, _)
DecimalValue(s, n) ==
  IF n = 0 THEN 0
  ELSE LET hi == DecimalValue(s, n - 1)
       IN  IF hi > SIZE_MAX THEN hi ELSE hi * 10 + DigitValue(s[n])

IsDepthText(s) ==
  /\ Len(s) > 0
  /\ \A i \in 1..Len(s) : s[i] \in DigitChars
  /\ DecimalValue(s, Len(s)) <= SIZE_MAX

EnumTexts == { <<"0">>, <<"1">>, <<"2">>, <<"3">> }

\* A QoS substring the decoder must refuse.
BadQosText(keyexpr) ==
  LET parts == split_keyexpr(keyexpr, ":")
      sub == split_keyexpr(parts[3], ",")
  IN  \/ Len(parts) < 3
      \/ Len(sub) < 2
      \/ parts[1] \notin EnumTexts
      \/ parts[2] \notin EnumTexts
      \/ sub[1] \notin EnumTexts
      \/ ~IsDepthText(sub[2])

\* C7: QoS rejection. keyexpr_to_qos returns std::nullopt for every substring
\* with fewer than 3 ':' parts, fewer than 2 ',' sub-parts in the third part,
\* a reliability, durability or history text outside its table, or a depth
\* text that is not a non-negative integer fitting a size_t.
C7_QosRejection ==
  (origin = "qos_decode" /\ BadQosText(qos_text.value)) => ~qos_out.has_value

\* C8: facts-factory validation. The facts factory returns std::nullopt
\* exactly when the type is not one of the five variants, the namespace or
\* the node name is empty, or the type is not Node and topic_info is absent;
\* otherwise it returns an Entity carrying the facts.
C8_FactsValidation ==
  facts.has_value =>
    LET f == facts.value
        invalid == \/ f.type \notin EntityTypes
                   \/ f.node_info.ns_ = << >>
                   \/ f.node_info.name_ = << >>
                   \/ (f.type # "Node" /\ ~f.topic_info.has_value)
    IN  /\ ~local.has_value <=> invalid
        /\ local.has_value =>
             /\ local.value.id_ = zid_to_str(f.id)
             /\ local.value.type_ = f.type
             /\ local.value.node_info_ = f.node_info
             /\ local.value.topic_info_ = f.topic_info

\* A publisher without topic_info, otherwise well-formed, was refused.
C8_Witness ==
  /\ origin = "facts"
  /\ facts.value.type = "Publisher"
  /\ facts.value.node_info.ns_ = <<"/", "a">>
  /\ facts.value.node_info.name_ = <<"n">>
  /\ ~facts.value.topic_info.has_value
  /\ ~local.has_value

\* C9: topic-info invariant. Every Entity either factory returned has
\* topic_info exactly when its type is not Node.
C9_TopicInfoIffNotNode ==
  \A e \in ConstructedEntities : e.topic_info_.has_value <=> e.type_ # "Node"

FlatNamespace(ns) ==
  /\ \A i \in 2..Len(ns) : ns[i] # "/"
  /\ ns # <<"/", "_">>

Unescaped(e) ==
  /\ ~Contains(e.node_info_.name_, "%")
  /\ e.topic_info_.has_value => ~Contains(e.topic_info_.value.name_, "%")
  /\ FlatNamespace(e.node_info_.ns_)

LeadingNumber(s) ==
  LET first == CHOOSE i \in 1..(Len(s) + 1) :
                 /\ \A j \in 1..(i - 1) : s[j] = " "
                 /\ i <= Len(s) => s[i] # " "
      signed == first <= Len(s) /\ s[first] \in {"+", "-"}
      from == IF signed THEN first + 1 ELSE first
      to == CHOOSE k \in (from - 1)..Len(s) :
              /\ \A j \in from..k : s[j] \in DigitChars
              /\ k < Len(s) => s[k + 1] \notin DigitChars
      digits == SubSeq(s, from, to)
  IN  [sign |-> IF signed /\ s[first] = "-" THEN -1 ELSE 1,
       magnitude |-> DecimalValue(digits, Len(digits))]

\* The fields of a returned Entity that C11 fixes with the same words in both
\* of its readings: id, node name, topic name, topic type, and the node token
\* of 6 segments.
DecodedVerbatimFields(segs, e) ==
  /\ e.id_ = segs[3]
  /\ e.node_info_.name_ = demangle_name(segs[6])
  /\ e.type_ # "Node" =>
       /\ e.topic_info_.has_value
       /\ e.topic_info_.value.name_ = demangle_name(segs[7])
       /\ e.topic_info_.value.type_ = segs[8]
  /\ token.value = NodeExampleToken =>
       /\ e.type_ = "Node"
       /\ ~e.topic_info_.has_value
       /\ e.node_info_.ns_ = <<"/">>
       /\ e.node_info_.name_ = <<"m", "y", "n", "o", "d", "e">>

====
